---------------------------- MODULE Spec2Model ----------------------------
(***************************************************************************)
(* A model of the Pokemon identification bots final4.py and app.py.        *)
(*                                                                         *)
(* Text is modelled as a sequence of characters, a character being a       *)
(* one-element string ("a", " ", "_", ...); the typographic quotes of the   *)
(* source's character classes are the characters "ldquo", "rdquo",         *)
(* "lsquo" and "rsquo".  Python's None / Optional[str] is the record        *)
(* None / Some(s).                                                          *)
(***************************************************************************)
EXTENDS Integers, Sequences, FiniteSets, TLC

VARIABLES
    temp_images,      \* final4.py: the pending queue (list of image bytes)
    embed_db,         \* final4.py: the in-memory catalog, a dict in insertion order
    db_file,          \* final4.py: the content of pokemon_embeddings.json
    pc,               \* per handler task: where it is suspended
    kind,             \* per handler task: which context menu command it runs
    img,              \* per handler task: the bytes its image URL serves
    msg,              \* per handler task: the message assign_name was invoked on
    reply,            \* per handler task: the reply passed to send_message
    data,             \* per handler task: the entry assign_name popped
    nAppended,        \* history: how many entries were ever appended to temp_images
    nPopped,          \* history: how many entries were ever popped from it
    turn,             \* single-operator schedule: which command comes next
    lastStored,       \* single-operator schedule: what the latest store put in the queue
    nameFailed,       \* single-operator schedule: an assign has failed for want of a name
    pokemon_names,    \* app.py: the names of the preloaded catalog
    pokemon_features, \* app.py: the features of the preloaded catalog
    arg,              \* pure functions: the input
    res,              \* pure functions: the output
    op                \* pure functions: which function produced res

bot_vars  == <<temp_images, embed_db, db_file, pc, kind, img, msg, reply, data, nAppended, nPopped>>
solo_vars == <<turn, lastStored, nameFailed>>
app_vars  == <<pokemon_names, pokemon_features>>
fn_vars   == <<arg, res, op>>
vars      == <<bot_vars, solo_vars, app_vars, fn_vars>>

-----------------------------------------------------------------------------
(* Bounds of the model *)

MaxNameLen == 3
MaxStores == 2
MaxCatalog == 3

-----------------------------------------------------------------------------
(* Characters and strings *)

None == [some |-> FALSE, v |-> <<>>]
Some(s) == [some |-> TRUE, v |-> s]
\* A faulty variant of Truthy, "if poke_name is None": C9 must tell it apart.
Truthy_is_not_None(r) == r.some

\* Python truthiness of an Optional[str]: None and "" are falsy
Truthy(r) == r.some /\ r.v # <<>>

Whitespace == {" ", "\t", "\n"}
Quotes == {"'", "\"", "ldquo", "rdquo", "lsquo", "rsquo"}
Punctuation == {".", ",", "!", "?", ":", ";"}

LowerCase == <<"a", "b", "c", "d", "e", "f", "g", "h", "i", "j", "k", "l", "m",
               "n", "o", "p", "q", "r", "s", "t", "u", "v", "w", "x", "y", "z">>
UpperCase == <<"A", "B", "C", "D", "E", "F", "G", "H", "I", "J", "K", "L", "M",
               "N", "O", "P", "Q", "R", "S", "T", "U", "V", "W", "X", "Y", "Z">>
IsLower(c) == \E i \in 1..26 : LowerCase[i] = c
IsUpper(c) == \E i \in 1..26 : UpperCase[i] = c
Lower(c) == IF IsUpper(c) THEN LowerCase[CHOOSE i \in 1..26 : UpperCase[i] = c] ELSE c
Upper(c) == IF IsLower(c) THEN UpperCase[CHOOSE i \in 1..26 : LowerCase[i] = c] ELSE c

\* str.lower()
lower(s) == [i \in 1..Len(s) |-> Lower(s[i])]

\* str.title(): a letter that follows no letter in upper case, the others in lower
title(s) ==
    [i \in 1..Len(s) |->
        IF i = 1 \/ ~(IsLower(s[i - 1]) \/ IsUpper(s[i - 1])) THEN Upper(s[i])
        ELSE Lower(s[i])]

RECURSIVE LStrip(_, _)
LStrip(s, chars) ==
    IF s # <<>> /\ Head(s) \in chars THEN LStrip(Tail(s), chars) ELSE s

RECURSIVE RStrip(_, _)
RStrip(s, chars) ==
    IF s # <<>> /\ s[Len(s)] \in chars THEN RStrip(SubSeq(s, 1, Len(s) - 1), chars) ELSE s

\* str.strip()
strip(s) == RStrip(LStrip(s, Whitespace), Whitespace)

\* str.replace(old, new) for single characters
replace(s, old, new) == [i \in 1..Len(s) |-> IF s[i] = old THEN new ELSE s[i]]

\* re.sub(r'^[quotes]+|[quotes]+$', '', s)
sub_quotes(s) == RStrip(LStrip(s, Quotes), Quotes)

\* re.sub(r'[\.\,\!\?\:\;]+$', '', s)
sub_punct(s) == RStrip(s, Punctuation)

unknown == <<"u", "n", "k", "n", "o", "w", "n">>

normalise_name(raw) ==
    IF raw = <<>> THEN unknown
    ELSE replace(sub_punct(sub_quotes(strip(raw))), " ", "_")

\* A faulty variant of real_name that deletes the joining character: C5 must
\* tell it apart.
real_name_deleting(raw) ==
    IF raw = <<>> THEN unknown
    ELSE SelectSeq(sub_punct(sub_quotes(strip(raw))), LAMBDA c : c # "_")

real_name(raw) ==
    IF raw = <<>> THEN unknown
    ELSE replace(sub_punct(sub_quotes(strip(raw))), "_", " ")

-----------------------------------------------------------------------------
(* The regular expressions  pre \s+ (.+?) \s+ post  under re.search          *)

\* the literal lit (lower case) matches text at position i, ignoring case
LitAt(text, i, lit) ==
    /\ i + Len(lit) - 1 <= Len(text)
    /\ \A k \in 1..Len(lit) : Lower(text[i + k - 1]) = lit[k]

\* the n characters of text from position i are all in chars
RunAt(text, i, n, chars) ==
    /\ i + n - 1 <= Len(text)
    /\ \A k \in 0..(n - 1) : text[i + k] \in chars

\* \s+ post matches text at position j
TailAt(text, j, post) ==
    \E b \in 1..(Len(text) - j + 1) :
        RunAt(text, j, b, Whitespace) /\ LitAt(text, j + b, post)

\* "." matches everything but a newline
DotAt(text, g, n) ==
    /\ g + n - 1 <= Len(text)
    /\ \A k \in 0..(n - 1) : text[g + k] # "\n"

\* the pattern matches at start i with a whitespace characters before a group
\* of n characters
MatchAt(text, pre, post, i, a, n) ==
    /\ LitAt(text, i, pre)
    /\ RunAt(text, i + Len(pre), a, Whitespace)
    /\ DotAt(text, i + Len(pre) + a, n)
    /\ TailAt(text, i + Len(pre) + a + n, post)

Min(S) == CHOOSE x \in S : \A y \in S : x <= y
Max(S) == CHOOSE x \in S : \A y \in S : x >= y

\* pat.search(text): the leftmost start; there the greedy \s+ takes the longest
\* run that lets the rest match, and the lazy group the shortest.  The result is
\* m.group(1), or None.
search(text, pre, post) ==
    LET R == 1..Len(text)
        starts == {i \in R : LitAt(text, i, pre)
                             /\ \E a \in R, n \in R : MatchAt(text, pre, post, i, a, n)}
    IN  IF starts = {} THEN None
        ELSE LET i  == Min(starts)
                 a  == Max({x \in R : \E n \in R : MatchAt(text, pre, post, i, x, n)})
                 n  == Min({x \in R : MatchAt(text, pre, post, i, a, x)})
                 g  == i + Len(pre) + a
             IN  Some(SubSeq(text, g, g + n - 1))

\* the literals of the three patterns, in lower case
Wild     == <<"w", "i", "l", "d">>
Fled     == <<"f", "l", "e", "d">>
A_wild   == <<"a", " ">> \o Wild
Has_fled == <<"h", "a", "s", " ">> \o Fled
The_wild == <<"t", "h", "e", " ">> \o Wild

patterns == << <<Wild, Fled>>, <<A_wild, Has_fled>>, <<The_wild, Fled>> >>

RECURSIVE first_match(_, _)
first_match(text, pats) ==
    IF pats = <<>> THEN None
    ELSE LET m == search(text, Head(pats)[1], Head(pats)[2])
         IN  IF m.some THEN Some(normalise_name(m.v))
             ELSE first_match(text, Tail(pats))

extract_pokemon_name_from_text(text) ==
    IF text = <<>> THEN None ELSE first_match(text, patterns)

-----------------------------------------------------------------------------
(* Inputs of the pure functions *)

SeqsUpTo(S, n) == UNION {[1..k -> S] : k \in 0..n}

NameAlphabet == {"a", " ", "\t", "_", ".", "'"}
Bulbasaur == <<"B", "u", "l", "b", "a", "s", "a", "u", "r">>
MrMime == <<"M", "r", ".", " ", "M", "i", "m", "e">>
Names == SeqsUpTo(NameAlphabet, MaxNameLen) \cup {Bulbasaur, MrMime}
\* names made of letters only
PlainNames == {<<"a">>, <<"a", "a">>, Bulbasaur}

AWildHasFled(X) ==
    <<"A", " ", "w", "i", "l", "d", " ">> \o X
        \o <<" ", "h", "a", "s", " ", "f", "l", "e", "d", "!">>
WildFled(X) == <<"W", "i", "l", "d", " ">> \o X \o <<" ", "f", "l", "e", "d">>
TheWildFled(X) ==
    <<"T", "h", "e", " ", "w", "i", "l", "d", " ">> \o X \o <<" ", "f", "l", "e", "d", ".">>
NoMatchHere == <<"n", "o", " ", "m", "a", "t", "c", "h", " ", "h", "e", "r", "e">>
Hi == <<"h", "i">>

Texts ==
    {AWildHasFled(X) : X \in Names} \cup {WildFled(X) : X \in Names}
        \cup {TheWildFled(X) : X \in Names} \cup {NoMatchHere, Hi, <<>>}

-----------------------------------------------------------------------------
(* Images, embeddings and similarity *)

NoBytes == "none"
Junk == "junk"                                \* bytes that are not an image
StoreBytes == {"imgA", "imgD", Junk}          \* what a stored message's URL may serve
QueryBytes == {"imgA", "imgB", "imgC", "imgD", Junk}

\* Image.open(io.BytesIO(data)).convert("RGB") succeeds
Decodable(bytes) == bytes # Junk

\* the feature extractor is deterministic: one embedding per image
get_embedding(bytes) ==
    CASE bytes = "imgA" -> "eA" [] bytes = "imgB" -> "eB"
      [] bytes = "imgC" -> "eC" [] bytes = "imgD" -> "eD"

\* cosine similarity in hundredths.  The four embeddings lie in a plane at
\* 0, 16.26, -18.19 and 180 degrees.
cosine_similarity(x, y) ==
    LET p == {x, y}
    IN  CASE x = y -> 100
          [] p = {"eA", "eB"} -> 96
          [] p = {"eA", "eC"} -> 95
          [] p = {"eB", "eC"} -> 82
          [] p = {"eA", "eD"} -> -100
          [] p = {"eB", "eD"} -> -96
          [] p = {"eC", "eD"} -> -95

HTTP_OK == 200
Statuses == {200, 404}
InitialBestScore == -100      \* best_score = -1
Threshold == 95               \* best_score > 0.95
AppThreshold == 85            \* best_score > 0.85

-----------------------------------------------------------------------------
(* Messages *)

\* a message a store or identify command is invoked on: its first attachment
\* (none, an image, another file), its first embed (none, with an image,
\* without) and the bytes the image URL serves
ImageMessages(bodies) ==
    [att : {"none", "image", "file"}, emb : {"none", "image", "plain"}, body : bodies]

\* final4.py: attachments, elif embeds.  The URL is represented by what it serves.
image_url(m) ==
    IF m.att # "none"
    THEN IF m.att = "image" THEN m.body ELSE NoBytes
    ELSE IF m.emb = "image" THEN m.body ELSE NoBytes

\* app.py: attachments, then embeds if no URL was found
app_image_url(m) ==
    IF m.att = "image" THEN m.body
    ELSE IF m.emb = "image" THEN m.body ELSE NoBytes

\* <<>> as a title or description is an absent one
Embed(t, d) == [title |-> t, description |-> d]
Message(content, embeds) == [content |-> content, embeds |-> embeds]

NoMessage == Message(<<>>, <<>>)
AssignMessages ==
    { Message(WildFled(<<"a">>), <<>>),
      Message(AWildHasFled(<<"b">>), <<>>),
      Message(Hi, <<>>),
      Message(<<>>, <<Embed(WildFled(<<".">>), <<>>)>>),
      Message(WildFled(<<"'", ".">>), <<Embed(<<>>, WildFled(<<"a">>))>>),
      Message(<<>>, <<Embed(Hi, Hi), Embed(TheWildFled(<<"b", " ", "h", "a", "s">>), <<>>)>>) }

\* the for loop over message.embeds, entered with poke_name falsy
RECURSIVE scan_embeds(_, _)
scan_embeds(embeds, poke_name) ==
    IF embeds = <<>> THEN poke_name
    ELSE LET e  == Head(embeds)
             p1 == IF e.title # <<>> THEN extract_pokemon_name_from_text(e.title)
                   ELSE poke_name
         IN  IF Truthy(p1) THEN p1
             ELSE LET p2 == IF e.description # <<>>
                            THEN extract_pokemon_name_from_text(e.description)
                            ELSE p1
                  IN  IF Truthy(p2) THEN p2 ELSE scan_embeds(Tail(embeds), p2)

\* poke_name as assign_name computes it from the message
message_name(m) ==
    LET p == extract_pokemon_name_from_text(m.content)
    IN  IF ~Truthy(p) /\ m.embeds # <<>> THEN scan_embeds(m.embeds, p) ELSE p

PokeName == [m \in AssignMessages |-> message_name(m)]

-----------------------------------------------------------------------------
(* The catalog: a dict in insertion order, and its JSON file *)

Entry(name, emb) == [name |-> name, emb |-> emb]
Keys(db) == {db[i].name : i \in 1..Len(db)}
Lookup(db, name) == db[CHOOSE i \in 1..Len(db) : db[i].name = name].emb

\* A faulty variant of dict_set that keeps the entry of a present key: C10
\* must tell it apart.
dict_setdefault(db, name, emb) ==
    IF name \in Keys(db) THEN db ELSE Append(db, Entry(name, emb))

\* embed_db[name] = emb: a present key keeps its place
dict_set(db, name, emb) ==
    IF name \in Keys(db)
    THEN [i \in 1..Len(db) |-> IF db[i].name = name THEN Entry(name, emb) ELSE db[i]]
    ELSE Append(db, Entry(name, emb))

FileAbsent == [exists |-> FALSE, members |-> <<>>]

\* json.dump(embed_db, f): the members of one JSON object, in dict order
json_dump(db) ==
    [exists |-> TRUE, members |-> [i \in 1..Len(db) |-> <<db[i].name, db[i].emb>>]]

\* json.load(f): the members inserted in file order
RECURSIVE json_load(_, _)
json_load(members, db) ==
    IF members = <<>> THEN db
    ELSE json_load(Tail(members), dict_set(db, Head(members)[1], Head(members)[2]))

\* module level: load the file if it exists, else {}
load_embed_db(f) == IF f.exists THEN json_load(f.members, <<>>) ELSE <<>>

\* A faulty variant of pop_first that leaves the entry in the list: C8 must
\* tell it apart.
pop_peek(q) == <<Head(q), q>>

\* temp_images.pop(0): the entry removed and the list left
pop_first(q) == <<Head(q), Tail(q)>>

-----------------------------------------------------------------------------
(* The handler tasks of final4.py.  A task runs without interruption from one *)
(* await to the next; pc names the await it is suspended at:                  *)
(*   "get"  async with bot.session.get(image_url)                             *)
(*   "read" await resp.read()                                                 *)
(*   "send" await interaction.response.send_message(...)                      *)
(*   "crashed" an exception left the handler; the command tree's error        *)
(*             handler has yet to log it                                      *)

Handlers == {"h1", "h2"}

Reply(t, name, n) == [t |-> t, name |-> name, n |-> n]
NoReply == Reply("none", <<>>, 0)
NoData == [bytes |-> NoBytes, id |-> 0]

\* the task h with its locals
Task(h, p, k, i, m, r, d) ==
    /\ pc'    = [pc    EXCEPT ![h] = p]
    /\ kind'  = [kind  EXCEPT ![h] = k]
    /\ img'   = [img   EXCEPT ![h] = i]
    /\ msg'   = [msg   EXCEPT ![h] = m]
    /\ reply' = [reply EXCEPT ![h] = r]
    /\ data'  = [data  EXCEPT ![h] = d]

shared_vars == <<temp_images, embed_db, db_file, nAppended, nPopped>>

StoresInFlight ==
    Cardinality({h \in Handlers : kind[h] = "store_image" /\ pc[h] \in {"get", "read"}})

\* store_image up to its first await
StoreStart(h, m) ==
    /\ pc[h] = "idle"
    /\ nAppended + StoresInFlight < MaxStores
    /\ IF image_url(m) = NoBytes
       THEN Task(h, "send", "store_image", NoBytes, NoMessage,
                 Reply("No image found!", <<>>, 0), NoData)
       ELSE Task(h, "get", "store_image", image_url(m), NoMessage, NoReply, NoData)
    /\ UNCHANGED shared_vars

\* the GET answers; store_image and identify go on alike
Get(h, status) ==
    /\ pc[h] = "get"
    /\ kind[h] \in {"store_image", "identify"}
    /\ IF status # HTTP_OK
       THEN Task(h, "send", kind[h], NoBytes, NoMessage,
                 Reply("Failed to fetch image!", <<>>, 0), NoData)
       ELSE Task(h, "read", kind[h], img[h], NoMessage, NoReply, NoData)
    /\ UNCHANGED shared_vars

\* store_image from resp.read() to send_message
StoreRead(h) ==
    /\ pc[h] = "read"
    /\ kind[h] = "store_image"
    /\ temp_images' = Append(temp_images, [bytes |-> img[h], id |-> nAppended + 1])
    /\ nAppended' = nAppended + 1
    /\ Task(h, "send", "store_image", NoBytes, NoMessage,
            Reply("Image stored temporarily", <<>>, Len(temp_images')), NoData)
    /\ UNCHANGED <<embed_db, db_file, nPopped>>

\* A faulty variant of AssignName that pops before it looks for the name: C1
\* must tell it apart.
AssignName_pop_early(h, m) ==
    /\ pc[h] = "idle"
    /\ IF temp_images = <<>>
       THEN /\ Task(h, "send", "assign_name", NoBytes, m,
                    Reply("No stored images!", <<>>, 0), NoData)
            /\ UNCHANGED shared_vars
       ELSE LET popped == pop_first(temp_images)
            IN  /\ temp_images' = popped[2]
                /\ nPopped' = nPopped + 1
                /\ UNCHANGED nAppended
                /\ IF ~Truthy(PokeName[m])
                   THEN /\ UNCHANGED <<embed_db, db_file>>
                        /\ Task(h, "send", "assign_name", NoBytes, m,
                                Reply("Could not find Pokemon name!", <<>>, 0), NoData)
                   ELSE IF Decodable(popped[1].bytes)
                   THEN /\ embed_db' = dict_set(embed_db, PokeName[m].v,
                                                get_embedding(popped[1].bytes))
                        /\ db_file' = json_dump(embed_db')
                        /\ Task(h, "send", "assign_name", NoBytes, m,
                                Reply("Saved", PokeName[m].v, 0), popped[1])
                   ELSE /\ UNCHANGED <<embed_db, db_file>>
                        /\ Task(h, "crashed", "assign_name", NoBytes, m, NoReply, popped[1])

\* assign_name from its start to send_message: there is no await before
AssignName(h, m) ==
    /\ pc[h] = "idle"
    /\ IF temp_images = <<>>
       THEN /\ Task(h, "send", "assign_name", NoBytes, m,
                    Reply("No stored images!", <<>>, 0), NoData)
            /\ UNCHANGED shared_vars
       ELSE IF ~Truthy(PokeName[m])
       THEN /\ Task(h, "send", "assign_name", NoBytes, m,
                    Reply("Could not find Pokemon name!", <<>>, 0), NoData)
            /\ UNCHANGED shared_vars
       ELSE LET popped    == pop_first(temp_images)
                poke_name == PokeName[m].v
            IN  /\ temp_images' = popped[2]
                /\ nPopped' = nPopped + 1
                /\ UNCHANGED nAppended
                /\ IF Decodable(popped[1].bytes)
                   THEN /\ embed_db' = dict_set(embed_db, poke_name,
                                                get_embedding(popped[1].bytes))
                        /\ db_file' = json_dump(embed_db')
                        /\ Task(h, "send", "assign_name", NoBytes, m,
                                Reply("Saved", poke_name, 0), popped[1])
                   ELSE \* Image.open raises outside any try
                        /\ UNCHANGED <<embed_db, db_file>>
                        /\ Task(h, "crashed", "assign_name", NoBytes, m, NoReply, popped[1])

\* send_message returns and the handler ends
SendDone(h) ==
    /\ pc[h] = "send"
    /\ Task(h, "idle", "none", NoBytes, NoMessage, NoReply, NoData)
    /\ UNCHANGED shared_vars

\* the command tree logs the exception; nothing is sent
ErrorLogged(h) ==
    /\ pc[h] = "crashed"
    /\ Task(h, "idle", "none", NoBytes, NoMessage, NoReply, NoData)
    /\ UNCHANGED shared_vars

IdleTasks ==
    [pc    |-> [h \in Handlers |-> "idle"],
     kind  |-> [h \in Handlers |-> "none"],
     img   |-> [h \in Handlers |-> NoBytes],
     msg   |-> [h \in Handlers |-> NoMessage],
     reply |-> [h \in Handlers |-> NoReply],
     data  |-> [h \in Handlers |-> NoData]]

TasksIdle ==
    /\ pc = IdleTasks.pc
    /\ kind = IdleTasks.kind
    /\ img = IdleTasks.img
    /\ msg = IdleTasks.msg
    /\ reply = IdleTasks.reply
    /\ data = IdleTasks.data

\* the process is restarted: the module level code runs again
Restart ==
    /\ db_file.exists
    /\ temp_images' = <<>>
    /\ embed_db' = load_embed_db(db_file)
    /\ nAppended' = 0
    /\ nPopped' = 0
    /\ pc' = IdleTasks.pc
    /\ kind' = IdleTasks.kind
    /\ img' = IdleTasks.img
    /\ msg' = IdleTasks.msg
    /\ reply' = IdleTasks.reply
    /\ data' = IdleTasks.data
    /\ UNCHANGED db_file

NoSolo == turn = "store" /\ lastStored = NoData /\ nameFailed = FALSE
NoApp  == pokemon_names = <<>> /\ pokemon_features = <<>>
NoFn   == arg = <<>> /\ res = None /\ op = "none"

Init ==
    /\ temp_images = <<>>
    /\ db_file = FileAbsent
    /\ embed_db = load_embed_db(db_file)
    /\ nAppended = 0
    /\ nPopped = 0
    /\ TasksIdle
    /\ NoSolo /\ NoApp /\ NoFn

other_vars == <<solo_vars, app_vars, fn_vars>>

Next ==
    \/ \E h \in Handlers, m \in ImageMessages(StoreBytes) :
           StoreStart(h, m) /\ UNCHANGED other_vars
    \/ \E h \in Handlers, status \in Statuses : Get(h, status) /\ UNCHANGED other_vars
    \/ \E h \in Handlers : StoreRead(h) /\ UNCHANGED other_vars
    \/ \E h \in Handlers, m \in AssignMessages : AssignName(h, m) /\ UNCHANGED other_vars
    \/ \E h \in Handlers : SendDone(h) /\ UNCHANGED other_vars
    \/ \E h \in Handlers : ErrorLogged(h) /\ UNCHANGED other_vars
    \/ Restart /\ UNCHANGED other_vars

Spec == Init /\ [][Next]_vars

-----------------------------------------------------------------------------
(* Single-operator use: store and assign invocations alternate on one task,  *)
(* each handler running to completion before the next starts                *)

Operator == "h1"

SoloStoreStart(m) ==
    /\ turn = "store"
    /\ StoreStart(Operator, m)
    /\ turn' = "assign"
    /\ lastStored' = NoData
    /\ UNCHANGED nameFailed

SoloStoreRead ==
    /\ StoreRead(Operator)
    /\ lastStored' = temp_images'[Len(temp_images')]
    /\ UNCHANGED <<turn, nameFailed>>

SoloAssignName(m) ==
    /\ turn = "assign"
    /\ AssignName(Operator, m)
    /\ turn' = "store"
    /\ nameFailed' = (nameFailed \/ reply'[Operator].t = "Could not find Pokemon name!")
    /\ UNCHANGED lastStored

SoloNext ==
    \/ \E m \in ImageMessages(StoreBytes) : SoloStoreStart(m) /\ UNCHANGED <<app_vars, fn_vars>>
    \/ \E status \in Statuses : Get(Operator, status) /\ UNCHANGED other_vars
    \/ SoloStoreRead /\ UNCHANGED <<app_vars, fn_vars>>
    \/ \E m \in AssignMessages : SoloAssignName(m) /\ UNCHANGED <<app_vars, fn_vars>>
    \/ SendDone(Operator) /\ UNCHANGED other_vars
    \/ ErrorLogged(Operator) /\ UNCHANGED other_vars

SoloSpec == Init /\ [][SoloNext]_vars

-----------------------------------------------------------------------------
(* Identify: final4.py's identify and app.py's identify_pokemon *)

\* A faulty variant of scan_best where the last maximum wins (>=): C6 must
\* tell it apart.
RECURSIVE scan_best_last(_, _, _, _)
scan_best_last(items, new_emb, best_name, best_score) ==
    IF items = <<>> THEN [name |-> best_name, score |-> best_score]
    ELSE LET score == cosine_similarity(new_emb, Head(items).emb)
         IN  IF score >= best_score
             THEN scan_best_last(Tail(items), new_emb, Some(Head(items).name), score)
             ELSE scan_best_last(Tail(items), new_emb, best_name, best_score)

\* the for loop over embed_db.items()
RECURSIVE scan_best(_, _, _, _)
scan_best(items, new_emb, best_name, best_score) ==
    IF items = <<>> THEN [name |-> best_name, score |-> best_score]
    ELSE LET score == cosine_similarity(new_emb, Head(items).emb)
         IN  IF score > best_score
             THEN scan_best(Tail(items), new_emb, Some(Head(items).name), score)
             ELSE scan_best(Tail(items), new_emb, best_name, best_score)

\* identify up to its first await
IdentifyStart(h, m) ==
    /\ pc[h] = "idle"
    /\ IF image_url(m) = NoBytes
       THEN Task(h, "send", "identify", NoBytes, NoMessage,
                 Reply("No image found!", <<>>, 0), NoData)
       ELSE Task(h, "get", "identify", image_url(m), NoMessage, NoReply, NoData)
    /\ UNCHANGED shared_vars

\* identify from resp.read() to send_message
IdentifyRead(h) ==
    /\ pc[h] = "read"
    /\ kind[h] = "identify"
    /\ IF ~Decodable(img[h])
       THEN Task(h, "send", "identify", img[h], NoMessage,
                 Reply("Error reading image", <<>>, 0), NoData)
       ELSE LET best == scan_best(embed_db, get_embedding(img[h]), None, InitialBestScore)
            IN  IF Truthy(best.name) /\ best.score > Threshold
                THEN Task(h, "send", "identify", img[h], NoMessage,
                          Reply("c", lower(real_name(best.name.v)), 0), NoData)
                ELSE Task(h, "send", "identify", img[h], NoMessage,
                          Reply("Could not identify the Pokemon.", <<>>, 0), NoData)
    /\ UNCHANGED shared_vars

\* similarities = (input_feature @ pokemon_features.T).squeeze(0)
similarities(input_feature) ==
    [i \in 1..Len(pokemon_features) |-> cosine_similarity(input_feature, pokemon_features[i])]

\* Tensor.argmax(): the index of the first maximal value
argmax(t) == CHOOSE i \in 1..Len(t) :
                 /\ \A j \in 1..Len(t) : t[j] <= t[i]
                 /\ \A j \in 1..(i - 1) : t[j] < t[i]

\* identify_pokemon up to its first await
AppIdentifyStart(h, m) ==
    /\ pc[h] = "idle"
    /\ IF app_image_url(m) = NoBytes
       THEN Task(h, "send", "identify_pokemon", NoBytes, NoMessage,
                 Reply("No image found!", <<>>, 0), NoData)
       ELSE Task(h, "get", "identify_pokemon", app_image_url(m), NoMessage, NoReply, NoData)
    /\ UNCHANGED shared_vars

AppGet(h, status) ==
    /\ pc[h] = "get"
    /\ kind[h] = "identify_pokemon"
    /\ IF status # HTTP_OK
       THEN Task(h, "send", kind[h], NoBytes, NoMessage,
                 Reply("Could not download image!", <<>>, 0), NoData)
       ELSE Task(h, "read", kind[h], img[h], NoMessage, NoReply, NoData)
    /\ UNCHANGED shared_vars

\* identify_pokemon from resp.read() to send_message; the try catches a failed decode
AppIdentifyRead(h) ==
    /\ pc[h] = "read"
    /\ kind[h] = "identify_pokemon"
    /\ IF ~Decodable(img[h])
       THEN Task(h, "send", "identify_pokemon", img[h], NoMessage,
                 Reply("Error", <<>>, 0), NoData)
       ELSE LET sims       == similarities(get_embedding(img[h]))
                best_idx   == argmax(sims)
                best_score == sims[best_idx]
                best_name  == pokemon_names[best_idx]
            IN  IF best_score > AppThreshold
                THEN Task(h, "send", "identify_pokemon", img[h], NoMessage,
                          Reply("sure", title(best_name), best_score), NoData)
                ELSE Task(h, "send", "identify_pokemon", img[h], NoMessage,
                          Reply("I could not confidently identify this Pokemon.", <<>>, 0),
                          NoData)
    /\ UNCHANGED shared_vars

\* catalogs the scripts may start with
CatalogNames == { <<"a">>, <<"b", "_", "h", "a", "s">>,
                  <<"M", "r", ".", "_", "M", "i", "m", "e">> }
AppNames == { <<"a">>, <<"b", "_", "h", "a", "s">> }
CatalogEmbs == {"eA", "eD"}
Catalogs ==
    {c \in SeqsUpTo([name : CatalogNames, emb : CatalogEmbs], MaxCatalog) :
        \A i, j \in 1..Len(c) : c[i].name = c[j].name => i = j}
\* torch.cat fails on an empty list: app.py starts only with a catalog
AppCatalogs == SeqsUpTo([name : AppNames, emb : CatalogEmbs], MaxCatalog) \ {<<>>}

\* The two scripts are separate processes.  An initial state gives final4.py
\* any catalog its file may hold and app.py a catalog of one entry, or app.py
\* any catalog its directory may hold and final4.py no catalog file.
IdentifyInit ==
    /\ temp_images = <<>>
    /\ nAppended = 0
    /\ nPopped = 0
    /\ TasksIdle
    /\ NoSolo /\ NoFn
    /\ \E c \in Catalogs, d \in AppCatalogs :
           /\ c = <<>> \/ Len(d) = 1
           /\ db_file = (IF c = <<>> THEN FileAbsent ELSE json_dump(c))
           /\ embed_db = load_embed_db(db_file)
           /\ pokemon_names = [i \in 1..Len(d) |-> d[i].name]
           /\ pokemon_features = [i \in 1..Len(d) |-> d[i].emb]

IdentifyNext ==
    \/ \E m \in ImageMessages(QueryBytes) : IdentifyStart(Operator, m) /\ UNCHANGED other_vars
    \/ \E status \in Statuses : Get(Operator, status) /\ UNCHANGED other_vars
    \/ IdentifyRead(Operator) /\ UNCHANGED other_vars
    \/ \E m \in ImageMessages(QueryBytes) : AppIdentifyStart(Operator, m) /\ UNCHANGED other_vars
    \/ \E status \in Statuses : AppGet(Operator, status) /\ UNCHANGED other_vars
    \/ AppIdentifyRead(Operator) /\ UNCHANGED other_vars
    \/ SendDone(Operator) /\ UNCHANGED other_vars

IdentifySpec == IdentifyInit /\ [][IdentifyNext]_vars

-----------------------------------------------------------------------------
(* The pure functions applied to every input *)

FnInit ==
    /\ temp_images = <<>>
    /\ db_file = FileAbsent
    /\ embed_db = <<>>
    /\ nAppended = 0
    /\ nPopped = 0
    /\ TasksIdle
    /\ NoSolo /\ NoApp
    /\ arg \in Texts \cup Names
    /\ res = None
    /\ op = "input"

FnExtract ==
    /\ op = "input"
    /\ arg \in Texts
    /\ res' = extract_pokemon_name_from_text(arg)
    /\ op' = "extract_pokemon_name_from_text"
    /\ UNCHANGED <<arg, bot_vars, solo_vars, app_vars>>

FnNormalise ==
    /\ op = "input"
    /\ arg \in Names
    /\ res' = Some(normalise_name(arg))
    /\ op' = "normalise_name"
    /\ UNCHANGED <<arg, bot_vars, solo_vars, app_vars>>

FnRealName ==
    /\ op = "normalise_name"
    /\ res' = Some(real_name(res.v))
    /\ op' = "real_name"
    /\ UNCHANGED <<arg, bot_vars, solo_vars, app_vars>>

FnNext == FnExtract \/ FnNormalise \/ FnRealName

FnSpec == FnInit /\ [][FnNext]_vars

-----------------------------------------------------------------------------
(* Properties *)

\* this step is handler h running assign_name
AssignStep(h) == pc[h] = "idle" /\ kind'[h] = "assign_name"
\* this step is handler h's assign_name removing an entry from the queue
AssignPops(h) == AssignStep(h) /\ nPopped' = nPopped + 1
\* neither the content nor any embed title or description of m gives a name
NoNameIn(m) == LET r == PokeName[m] IN ~r.some \/ r.v = <<>>
CatalogUnchanged == embed_db' = embed_db /\ db_file' = db_file

\* C1: an assign_name invoked with an empty pending queue, or on a message no
\* name can be extracted from, sends a warning and leaves the pending queue,
\* the in-memory catalog and the catalog file as they were.
C1_FailedAssignIsNoOp ==
    [][\A h \in Handlers :
          (AssignStep(h) /\ (temp_images = <<>> \/ NoNameIn(msg'[h])))
              => /\ pc'[h] = "send"
                 /\ reply'[h].t = IF temp_images = <<>> THEN "No stored images!"
                                  ELSE "Could not find Pokemon name!"
                 /\ temp_images' = temp_images
                 /\ CatalogUnchanged]_vars

\* C1 witness: an assign was refused for want of a name while entries were
\* pending and the catalog was not empty
C1_Witness ==
    \E h \in Handlers :
        /\ pc[h] = "send" /\ kind[h] = "assign_name"
        /\ reply[h].t = "Could not find Pokemon name!"
        /\ NoNameIn(msg[h])
        /\ Len(temp_images) = 2
        /\ embed_db # <<>>

\* C2: every assign that removes an entry removes the oldest pending one, which
\* is the k-th entry ever appended when it is the k-th removal, and writes it
\* into the catalog under the extracted label, every other label's entry
\* staying as it was.
C2_FifoAssignWritesCatalog ==
    [][\A h \in Handlers :
          AssignPops(h) =>
              LET name == PokeName[msg'[h]].v
              IN  /\ data'[h] = Head(temp_images)
                  /\ data'[h].id = nPopped + 1
                  /\ temp_images' = Tail(temp_images)
                  /\ name \in Keys(embed_db')
                  /\ Decodable(data'[h].bytes)
                  /\ Lookup(embed_db', name) = get_embedding(data'[h].bytes)
                  /\ \A n \in Keys(embed_db) \ {name} :
                         n \in Keys(embed_db') /\ Lookup(embed_db', n) = Lookup(embed_db, n)]_vars

\* C3: after every assign that removed an entry from the pending queue,
\* reloading the catalog file gives the in-memory catalog, which holds the
\* assigned label with the embedding of the consumed entry and every other
\* label as before.
C3_CatalogPersists ==
    [][\A h \in Handlers :
          AssignPops(h) =>
              LET name     == PokeName[msg'[h]].v
                  reloaded == load_embed_db(db_file')
              IN  /\ reloaded = embed_db'
                  /\ name \in Keys(reloaded)
                  /\ Decodable(data'[h].bytes)
                  /\ Lookup(reloaded, name) = get_embedding(data'[h].bytes)
                  /\ \A n \in Keys(embed_db) \ {name} :
                         n \in Keys(reloaded) /\ Lookup(reloaded, n) = Lookup(embed_db, n)]_vars

\* none of the three patterns matches text
MatchesNone(text) ==
    \A i \in 1..Len(patterns) : ~search(text, patterns[i][1], patterns[i][2]).some

\* C4: extract_pokemon_name_from_text returns X for "A wild X has fled!", and
\* None for a text none of the three patterns matches.
C4_ExtractReturnsName ==
    op = "extract_pokemon_name_from_text" =>
        /\ \A X \in PlainNames : arg = AWildHasFled(X) => res = Some(X)
        /\ MatchesNone(arg) => res = None

\* n with its surrounding whitespace and quotes and its trailing punctuation removed
Stripped(n) == sub_punct(sub_quotes(strip(n)))

\* C5 as claimed: for every non-empty name n, real_name(normalise_name(n)) is n
\* with its surrounding quotes and trailing punctuation stripped.
C5_RoundTripEveryName ==
    (op = "real_name" /\ arg # <<>>) => res.v = Stripped(arg)

\* the names the round trip gives back: no joining character, a stripped form
\* that is not empty, does not end with a quote, and neither begins nor ends
\* with whitespace other than the space
RoundTrips(n) ==
    LET s == Stripped(n)
    IN  /\ s # <<>>
        /\ \A i \in 1..Len(s) : s[i] # "_"
        /\ s[Len(s)] \notin Quotes
        /\ s[1] \notin Whitespace \ {" "}
        /\ s[Len(s)] \notin Whitespace \ {" "}

\* C5: for every such name n, real_name(normalise_name(n)) is n with its
\* surrounding quotes and trailing punctuation stripped.
C5_RoundTrip ==
    (op = "real_name" /\ arg # <<>> /\ RoundTrips(arg)) => res.v = Stripped(arg)

\* C5 witness: "Mr. Mime" went to "Mr._Mime" and back
C5_Witness ==
    /\ op = "real_name"
    /\ arg = MrMime
    /\ normalise_name(arg) # arg
    /\ res.v = MrMime

\* the first position of embs whose similarity to q is the greatest
FirstBest(embs, q) ==
    CHOOSE i \in 1..Len(embs) :
        /\ \A j \in 1..Len(embs) : cosine_similarity(q, embs[j]) <= cosine_similarity(q, embs[i])
        /\ \A j \in 1..(i - 1) : cosine_similarity(q, embs[j]) < cosine_similarity(q, embs[i])

\* handler h has run the lookup and is sending its answer
LookedUp(h, k) == pc[h] = "send" /\ kind[h] = k /\ img[h] \in QueryBytes \ {Junk}

\* C6: identify names, by its display name, the first catalog entry whose
\* similarity to the query is the greatest, if that similarity is above 0.95
\* (0.85 in app.py); with an empty catalog or a best similarity at or below the
\* threshold it answers that it could not identify.
C6_IdentifyFirstBestAboveThreshold ==
    \A h \in Handlers :
        /\ LookedUp(h, "identify") =>
              LET q    == get_embedding(img[h])
                  embs == [i \in 1..Len(embed_db) |-> embed_db[i].emb]
              IN  IF embed_db # <<>> /\ cosine_similarity(q, embs[FirstBest(embs, q)]) > 95
                  THEN reply[h] = Reply("c", lower(real_name(embed_db[FirstBest(embs, q)].name)), 0)
                  ELSE reply[h].t = "Could not identify the Pokemon."
        /\ LookedUp(h, "identify_pokemon") =>
              LET q == get_embedding(img[h])
                  i == FirstBest(pokemon_features, q)
              IN  IF cosine_similarity(q, pokemon_features[i]) > 85
                  THEN reply[h] = Reply("sure", title(pokemon_names[i]),
                                        cosine_similarity(q, pokemon_features[i]))
                  ELSE reply[h].t = "I could not confidently identify this Pokemon."

\* C6 witness: two entries tie for the greatest similarity, which is above the
\* threshold, and identify named the first of them, which is not the first of
\* the catalog
C6_Witness ==
    /\ LookedUp(Operator, "identify")
    /\ Len(embed_db) = 3
    /\ embed_db[1].emb = "eD" /\ embed_db[2].emb = "eA" /\ embed_db[3].emb = "eA"
    /\ img[Operator] = "imgB"
    /\ reply[Operator] = Reply("c", lower(real_name(embed_db[2].name)), 0)

\* C7: when the fetch answers with a non-success status, or the bytes being
\* processed cannot be decoded, the handler sends a reply reporting it, no
\* exception leaves the handler, and the pending queue and the catalog stay as
\* they were.
C7_FailureReportedAndAbandoned ==
    [][\A h \in Handlers :
          LET fetchFailed  == pc[h] = "get" /\ pc'[h] \notin {"get", "read", "idle"}
              decodeFailed == AssignPops(h) /\ ~Decodable(Head(temp_images).bytes)
          IN  (fetchFailed \/ decodeFailed)
                  => /\ pc'[h] = "send"
                     /\ reply'[h].t # "none"
                     /\ temp_images' = temp_images
                     /\ CatalogUnchanged]_vars

\* handler h is in an assign_name call that was paired with a pending entry
Paired(h) == kind[h] = "assign_name" /\ data[h] # NoData

\* C8 as claimed, over the runs of two overlapping assign_name calls: the two
\* calls are paired with the same pending entry.
C8_OverlappingAssignsShareEntry ==
    \A g, h \in Handlers : (g # h /\ Paired(g) /\ Paired(h)) => data[g].id = data[h].id

\* C8: the emptiness check and the pop of assign_name run without an await in
\* between, so no two assign_name calls, overlapping or not, are ever paired
\* with the same pending entry.
C8_AssignsTakeDistinctEntries ==
    \A g, h \in Handlers : (g # h /\ Paired(g) /\ Paired(h)) => data[g].id # data[h].id

\* C8 witness: two assign_name calls are in flight at once, each paired with an entry
C8_Witness ==
    \A h \in Handlers : Paired(h) /\ pc[h] = "send"

\* C9: no entry of the catalog, in memory or in the file, has the empty label.
C9_NoEmptyLabel ==
    /\ \A i \in 1..Len(embed_db) : embed_db[i].name # <<>>
    /\ \A i \in 1..Len(db_file.members) : db_file.members[i][1] # <<>>

\* C9 witness: assign_name ran on a message whose captured name is only
\* punctuation, with an entry pending and a catalog that is not empty
C9_Witness ==
    \E h \in Handlers :
        /\ pc[h] = "send" /\ kind[h] = "assign_name"
        /\ PokeName[msg[h]] = Some(<<>>)
        /\ temp_images # <<>>
        /\ embed_db # <<>>

\* the assign of the single operator wrote a catalog entry
Saved == pc[Operator] = "send" /\ kind[Operator] = "assign_name" /\ reply[Operator].t = "Saved"
\* ... and paired its name with what the store just before it put in the queue
PairedWithLastStore ==
    /\ data[Operator] = lastStored
    /\ Lookup(embed_db, reply[Operator].name) = get_embedding(lastStored.bytes)

=============================================================================
